---- MODULE Spec2Model ----
(***************************************************************************)
(* iron-pastebin (src/src/main.rs): the paste store under ./uploads, the   *)
(* request handlers submit / retrieve / delete / replace running on        *)
(* concurrent worker threads, and the retention sweeper thread.            *)
(*                                                                         *)
(* The file system is the only shared state.  Every system call of a       *)
(* handler (exists, File::create, one write of write_all, remove_file,     *)
(* read_dir, metadata) is one atomic step; the computation between two     *)
(* system calls belongs to the step of the call before it.                 *)
(*                                                                         *)
(* Content is a sequence of blocks of BlockBytes bytes each, so that the   *)
(* 2 MiB limit keeps its value.  Time is counted in days.                  *)
(***************************************************************************)
EXTENDS Integers, Sequences, FiniteSets, TLC

(* ------------------------------ constants ------------------------------ *)

ID_LEN == 5

MAX_PASTE_BYTES == 2 * 1024 * 1024

one_day == 1

thirty_days == one_day * 30

(* ------------------------------- bounds -------------------------------- *)

\* bytes per block of content
BlockBytes == 1024 * 1024

\* the clock stops advancing here
MaxClock == 31

\* sweep cycles after the first
MaxCycles == 1

\* requests the server accepts in one run
MaxRequests == 3

\* the worker threads that serve requests
Procs == {"t1", "t2"}

\* the ids generate_id can draw: one of length ID_LEN, one a character longer
Ids == {"vxcRz", "vxcRz0"}

\* request bodies: 1 MiB, exactly 2 MiB, 3 MiB
Contents == {<<"a">>, <<"b", "b">>, <<"c", "c", "c">>}

\* what hmac_key.txt can be at startup
KeyFiles == {"missing", "unreadable", "", "k1"}

NoId == "-"

\* params.find("key").unwrap_or(""): no MAC at all
NoKey == <<"", "">>

NoLang == "-"

Langs == {NoLang, "rs", "doesnotexist"}

NoFile == [content |-> <<>>, mtime |-> -1, exists |-> FALSE]

\* what ./uploads can hold when the server starts: nothing, or a paste of
\* 2 MiB that an earlier run stored
StartDirs ==
    {[i \in Ids |-> NoFile],
     [i \in Ids |-> IF i = "vxcRz"
                     THEN [content |-> <<"b", "b">>, mtime |-> 0, exists |-> TRUE]
                     ELSE NoFile]}

(* -------------------------------- state -------------------------------- *)

VARIABLES
    keyFile,    \* hmac_key.txt
    hmacKey,    \* HMAC_KEY once main has forced it; "unset" before
    main,       \* main(): "boot", "serving", "exited", "panicked"
    files,      \* ./uploads: id -> [content, mtime, exists]
    clock,      \* SystemTime::now(), in days
    req,        \* worker thread -> the request it is serving
    sweeper,    \* the sweeper thread: [pc, now, todo, seen, path]
    cycles,     \* sweep cycles started after the first
    sub,        \* history: thread -> its last submit and what touched its file since
    served,     \* requests accepted so far
    removed,    \* history: ids whose delete was acknowledged and not allocated since
    issued      \* history: id -> the key the first answered submit of it returned

vars == <<keyFile, hmacKey, main, files, clock, req, sweeper, cycles, served, sub, removed, issued>>

(* ------------------------------- helpers ------------------------------- *)

\* paste.len()
ByteLen(c) == Len(c) * BlockBytes

\* a key that also depends on the time it is made at
gen_key_stamped(input) == <<hmacKey, input, clock>>

\* gen_key: the HMAC of the id under HMAC_KEY, as a symbolic term: two keys
\* are equal exactly when secret and id are
gen_key(input) == <<hmacKey, input>>

\* the keys a request can carry: none, or the MAC of some id under some secret
Keys == {NoKey} \cup {<<"k1", i>> : i \in Ids}

\* Path::new(&path).exists()
Exists(id) == files[id].exists

\* the ids generate_id(size) can return
generate_id(size) == {i \in Ids : Len(i) = size}

MaxIdLen == CHOOSE n \in {Len(i) : i \in Ids} : \A i \in Ids : Len(i) <= n

\* File::create(path): creates or truncates, and stamps the file
Created(id) == [files EXCEPT ![id] = [content |-> <<>>, mtime |-> clock, exists |-> TRUE]]

\* write where write_all was meant: only the first write happens
WriteOnce(c, off, b) == IF off = 0 THEN <<b>> ELSE c

\* one write(2) of write_all at offset off through a descriptor of the file:
\* a gap left by a truncation under the descriptor reads as zeros
WriteAt(c, off, b) ==
    [i \in 1..(IF Len(c) > off + 1 THEN Len(c) ELSE off + 1) |->
        IF i = off + 1 THEN b ELSE IF i <= Len(c) THEN c[i] ELSE "0"]

Written(id, off, b) ==
    [files EXCEPT ![id] = [content |-> WriteAt(@.content, off, b), mtime |-> clock, exists |-> TRUE]]

\* fs::remove_file(path)
Removed(id) == [files EXCEPT ![id] = NoFile]

Idle ==
    [op |-> "none", pc |-> "idle", id |-> NoId, key |-> NoKey,
     data |-> <<>>, off |-> 0, dlen |-> 0, orphan |-> FALSE,
     result |-> "none", body |-> <<>>]

\* a request answered: the thread keeps what the response says
Done(op, id, result, body) ==
    [Idle EXCEPT !.op = op, !.pc = "done", !.id = id, !.result = result, !.body = body]

\* the thread is free to take a request
Free(p) == main = "serving" /\ req[p].pc \in {"idle", "done"} /\ served < MaxRequests

NoSub == [id |-> NoId, data |-> <<>>, ret |-> FALSE, st |-> "none"]

\* history: what a step on file id does to the record of every submit of that
\* id.  kind "kill": File::create or a write by a replace, or the removal of
\* the file; kind "submit": File::create or a write by another submit.  A
\* step of the submit itself (not yet answered) leaves its own record alone.
Touch(s, actor, id, kind) ==
    [q \in Procs |->
        IF s[q].id # id \/ (q = actor /\ ~s[q].ret /\ kind = "submit") THEN s[q]
        ELSE IF kind = "kill" THEN [s[q] EXCEPT !.st = "dead"]
        ELSE IF s[q].st = "clean" THEN [s[q] EXCEPT !.st = "touched"]
        ELSE s[q]]

\* the descriptors of threads writing file id lose the name when it is removed
Orphaned(r, id) ==
    [q \in Procs |->
        IF r[q].pc = "write" /\ r[q].id = id THEN [r[q] EXCEPT !.orphan = TRUE] ELSE r[q]]

NoIssue == [key |-> NoKey, st |-> "none"]

\* history: a submit answers with id and key.  The record keeps the key of
\* the first answer; st is "live" after it, "gone" once the paste was
\* removed, "again" when a later submit is answered with the same id
Issue(id, key) ==
    [issued EXCEPT ![id] =
        IF @.st = "none" THEN [key |-> key, st |-> "live"]
        ELSE [@ EXCEPT !.st = IF @ = "live" THEN "live" ELSE "again"]]

\* history: the paste of id is removed
Gone(id) ==
    [issued EXCEPT ![id] = [@ EXCEPT !.st = IF @ = "none" THEN "none" ELSE "gone"]]

\* the sweeper thread outside a cycle: no iterator, no path
Asleep(pc) == [pc |-> pc, now |-> 0, todo |-> {}, seen |-> {}, path |-> NoId]

(* ------------------------------- startup ------------------------------- *)

Init ==
    /\ keyFile \in KeyFiles
    /\ hmacKey = "unset"
    /\ main = "boot"
    /\ files \in StartDirs
    /\ clock = 0
    /\ req = [p \in Procs |-> Idle]
    /\ sweeper = Asleep("off")
    /\ cycles = 0
    /\ served = 0
    /\ sub = [p \in Procs |-> NoSub]
    /\ removed = {}
    /\ issued = [i \in Ids |-> NoIssue]

\* HMAC_KEY falling back to a built-in key when the file gives none
LoadKeyDefault == IF keyFile \in {"missing", ""} THEN "k1" ELSE keyFile

\* lazy_static HMAC_KEY: a missing file gives the empty key, an unreadable one
\* panics in read_to_string
LoadKey == IF keyFile = "missing" THEN "" ELSE keyFile

\* main(): force HMAC_KEY, exit on an empty key, else listen and spawn the sweeper
MainBoot ==
    /\ main = "boot"
    /\ IF keyFile = "unreadable"
       THEN /\ main' = "panicked"
            /\ UNCHANGED <<hmacKey, sweeper>>
       ELSE /\ hmacKey' = LoadKey
            /\ IF LoadKey = ""
               THEN /\ main' = "exited"
                    /\ UNCHANGED sweeper
               ELSE /\ main' = "serving"
                    /\ sweeper' = Asleep("loop")
    /\ UNCHANGED <<keyFile, files, clock, req, cycles, served, sub, removed, issued>>

\* time passes
Tick ==
    /\ main = "serving"
    /\ clock + thirty_days <= MaxClock
    /\ clock' = clock + thirty_days
    /\ UNCHANGED <<keyFile, hmacKey, main, files, req, sweeper, cycles, served, sub, removed, issued>>

(* ------------------------------- submit -------------------------------- *)

\* the size check counting blocks where it should count bytes
TooBigUnits(paste) == Len(paste) > MAX_PASTE_BYTES

\* the size check of submit and of replace
TooBig(paste) == ByteLen(paste) > MAX_PASTE_BYTES

\* submit, lines 190-214: the body, the size check, double_id_len
SubmitStart(p, paste) ==
    /\ Free(p)
    /\ req' = [req EXCEPT ![p] =
                 IF TooBig(paste)
                 THEN Done("submit", NoId, "SizeExceeded", <<>>)
                 ELSE [Idle EXCEPT !.op = "submit", !.pc = "alloc", !.data = paste,
                                   !.dlen = ID_LEN * 2]]
    /\ sub' = [sub EXCEPT ![p] = NoSub]
    /\ UNCHANGED <<keyFile, hmacKey, main, files, clock, sweeper, cycles, removed, issued>>
    /\ served' = served + 1

\* the candidate growing by a character with every failed attempt
CandidateLenEager(d) == d - ID_LEN

\* the length of the candidate drawn when double_id_len is d
CandidateLen(d) == d \div 2

\* one turn of the allocation loop, lines 215-222
SubmitAlloc(p) ==
    /\ req[p].op = "submit" /\ req[p].pc = "alloc"
    /\ CandidateLen(req[p].dlen) <= MaxIdLen
    /\ \E id \in generate_id(CandidateLen(req[p].dlen)) :
          req' = [req EXCEPT ![p] =
                    IF Exists(id)
                    THEN [@ EXCEPT !.dlen = @ + 1]
                    ELSE [@ EXCEPT !.id = id, !.pc = "create"]]
    /\ UNCHANGED <<keyFile, hmacKey, main, files, clock, sweeper, cycles, served, sub, removed, issued>>

\* File::create(path), line 225
SubmitCreate(p) ==
    /\ req[p].op = "submit" /\ req[p].pc = "create"
    /\ files' = Created(req[p].id)
    /\ req' = [req EXCEPT ![p] = [@ EXCEPT !.pc = "write"]]
    /\ sub' = [Touch(sub, p, req[p].id, "submit") EXCEPT ![p] =
                 [id |-> req[p].id, data |-> req[p].data, ret |-> FALSE, st |-> "clean"]]
    /\ removed' = removed \ {req[p].id}
    /\ UNCHANGED <<keyFile, hmacKey, main, clock, sweeper, cycles, served, issued>>

\* one write of f.write_all, lines 226 and 289; the last one answers the request
WriteStep(p, kind, answer) ==
    LET r == req[p]
        last == r.off + 1 = Len(r.data)
    IN  /\ r.pc = "write"
        /\ r.off < Len(r.data)
        /\ IF r.orphan
           THEN UNCHANGED files
           ELSE files' = Written(r.id, r.off, r.data[r.off + 1])
        /\ req' = [req EXCEPT ![p] =
                     IF last
                     THEN [Done(r.op, r.id, answer, <<>>) EXCEPT
                              !.key = IF kind = "submit" THEN gen_key(r.id) ELSE NoKey]
                     ELSE [r EXCEPT !.off = @ + 1]]
        /\ issued' = IF kind = "submit" /\ last THEN Issue(r.id, gen_key(r.id)) ELSE issued
        /\ LET s == IF r.orphan THEN sub ELSE Touch(sub, p, r.id, kind)
           IN  sub' = IF kind = "submit" /\ last /\ s[p].id = r.id
                      THEN [s EXCEPT ![p] = [@ EXCEPT !.ret = TRUE]]
                      ELSE s

\* a write of write_all fails: itry! answers with the error, the file stays as it is
WriteFail(p) ==
    /\ req[p].pc = "write"
    /\ req[p].off < Len(req[p].data)
    /\ req' = [req EXCEPT ![p] = Done(@.op, @.id, "IOFailure", <<>>)]
    /\ sub' = IF req[p].op = "submit" THEN [sub EXCEPT ![p] = NoSub] ELSE sub
    /\ UNCHANGED <<keyFile, hmacKey, main, files, clock, sweeper, cycles, served, removed, issued>>

\* f.write_all(paste.as_bytes()) and the response, lines 226-227
SubmitWrite(p) ==
    /\ req[p].op = "submit"
    /\ WriteStep(p, "submit", "Created")
    /\ UNCHANGED <<keyFile, hmacKey, main, clock, sweeper, cycles, served, removed>>

(* ------------------------------ retrieve ------------------------------- *)

\* highlight, lines 351-371: an extension syntect does not know is an error
highlight(buffer, lang) ==
    IF lang = "doesnotexist" THEN "HighlightUnavailable" ELSE "Rendered"

\* a retrieve that removes the paste it has read
RetrieveOnce(p, id, lang) ==
    /\ Free(p)
    /\ req' = [req EXCEPT ![p] =
                 IF ~Exists(id)
                 THEN Done("retrieve", id, "NotFound", <<>>)
                 ELSE Done("retrieve", id,
                           IF lang = NoLang THEN "Ok" ELSE highlight(files[id].content, lang),
                           files[id].content)]
    /\ files' = IF Exists(id) THEN Removed(id) ELSE files
    /\ UNCHANGED <<keyFile, hmacKey, main, clock, sweeper, cycles, sub, removed, issued>>
    /\ served' = served + 1

\* retrieve, lines 230-265: File::open and read_to_string, then the rendering
Retrieve(p, id, lang) ==
    /\ Free(p)
    /\ req' = [req EXCEPT ![p] =
                 IF ~Exists(id)
                 THEN Done("retrieve", id, "NotFound", <<>>)
                 ELSE Done("retrieve", id,
                           IF lang = NoLang THEN "Ok" ELSE highlight(files[id].content, lang),
                           files[id].content)]
    /\ UNCHANGED <<keyFile, hmacKey, main, files, clock, sweeper, cycles, sub, removed, issued>>
    /\ served' = served + 1

(* -------------------------- delete and replace ------------------------- *)

\* validate_key_id letting the key-less route through
validate_key_id_nokey(id, key) ==
    IF ~Exists(id) THEN "NotFound"
    ELSE IF key # NoKey /\ key # gen_key(id) THEN "Unauthorized"
    ELSE "Ok"

\* validate_key_id comparing the key before it looks for the paste
validate_key_id_keyfirst(id, key) ==
    IF key # gen_key(id) THEN "Unauthorized"
    ELSE IF ~Exists(id) THEN "NotFound"
    ELSE "Ok"

\* validate_key_id, lines 297-309
validate_key_id(id, key) ==
    IF ~Exists(id) THEN "NotFound"
    ELSE IF key # gen_key(id) THEN "Unauthorized"
    ELSE "Ok"

\* delete, lines 267-271
DeleteStart(p, id, key) ==
    /\ Free(p)
    /\ req' = [req EXCEPT ![p] =
                 IF validate_key_id(id, key) = "Ok"
                 THEN [Idle EXCEPT !.op = "delete", !.pc = "unlink", !.id = id, !.key = key]
                 ELSE Done("delete", id, validate_key_id(id, key), <<>>)]
    /\ UNCHANGED <<keyFile, hmacKey, main, files, clock, sweeper, cycles, sub, removed, issued>>
    /\ served' = served + 1

\* fs::remove_file(path) and the response, lines 273-274
DeleteUnlink(p) ==
    /\ req[p].op = "delete" /\ req[p].pc = "unlink"
    /\ IF Exists(req[p].id)
       THEN /\ files' = Removed(req[p].id)
            /\ req' = [Orphaned(req, req[p].id) EXCEPT ![p] =
                         Done("delete", req[p].id, "Ok", <<>>)]
            /\ sub' = Touch(sub, p, req[p].id, "kill")
            /\ removed' = removed \cup {req[p].id}
            /\ issued' = Gone(req[p].id)
       ELSE /\ req' = [req EXCEPT ![p] = Done("delete", @.id, "IOFailure", <<>>)]
            /\ UNCHANGED <<files, sub, removed, issued>>
    /\ UNCHANGED <<keyFile, hmacKey, main, clock, sweeper, cycles, served>>

\* replace checking the size of the body before the gate
ReplaceStartSizeFirst(p, id, key, paste) ==
    /\ Free(p)
    /\ req' = [req EXCEPT ![p] =
                 IF TooBig(paste)
                 THEN Done("replace", id, "SizeExceeded", <<>>)
                 ELSE IF validate_key_id(id, key) # "Ok"
                 THEN Done("replace", id, validate_key_id(id, key), <<>>)
                 ELSE [Idle EXCEPT !.op = "replace", !.pc = "create", !.id = id, !.key = key,
                                   !.data = paste]]
    /\ UNCHANGED <<keyFile, hmacKey, main, files, clock, sweeper, cycles, sub, removed, issued>>
    /\ served' = served + 1

\* replace, lines 277-287: the gate, the body, the size check
ReplaceStart(p, id, key, paste) ==
    /\ Free(p)
    /\ req' = [req EXCEPT ![p] =
                 IF validate_key_id(id, key) # "Ok"
                 THEN Done("replace", id, validate_key_id(id, key), <<>>)
                 ELSE IF TooBig(paste)
                 THEN Done("replace", id, "SizeExceeded", <<>>)
                 ELSE [Idle EXCEPT !.op = "replace", !.pc = "create", !.id = id, !.key = key,
                                   !.data = paste]]
    /\ UNCHANGED <<keyFile, hmacKey, main, files, clock, sweeper, cycles, sub, removed, issued>>
    /\ served' = served + 1

\* File::create(path), line 288
ReplaceCreate(p) ==
    /\ req[p].op = "replace" /\ req[p].pc = "create"
    /\ files' = Created(req[p].id)
    /\ req' = [req EXCEPT ![p] = [@ EXCEPT !.pc = "write"]]
    /\ sub' = Touch(sub, p, req[p].id, "kill")
    /\ UNCHANGED <<keyFile, hmacKey, main, clock, sweeper, cycles, served, removed, issued>>

\* f.write_all(paste.as_bytes()) and the response, lines 289-290
ReplaceWrite(p) ==
    /\ req[p].op = "replace"
    /\ WriteStep(p, "kill", "Ok")
    /\ UNCHANGED <<keyFile, hmacKey, main, clock, sweeper, cycles, served, removed>>

(* ------------------------------- sweeper ------------------------------- *)

\* now.duration_since(last_modified).unwrap() > thirty_days, line 146
Expired(now, last_modified) == now - last_modified > thirty_days

\* the pastes read_dir("./uploads") lists
Listing == {i \in Ids : Exists(i)}

\* lines 140-141: sample the time and list the directory
SweepStart ==
    /\ sweeper.pc = "loop"
    /\ sweeper' = [pc |-> "iter", now |-> clock, todo |-> Listing, seen |-> Listing,
                   path |-> NoId]
    /\ UNCHANGED <<keyFile, hmacKey, main, files, clock, req, cycles, served, sub, removed, issued>>

\* line 141: read_dir fails and unwrap panics the thread
SweepStartFail ==
    /\ sweeper.pc = "loop"
    /\ sweeper' = [pc |-> "panicked", now |-> clock, todo |-> {}, seen |-> {}, path |-> NoId]
    /\ UNCHANGED <<keyFile, hmacKey, main, files, clock, req, cycles, served, sub, removed, issued>>

\* lines 143-146 for the next entry: metadata, modified, duration_since.
\* unwrap panics when the file is gone or was modified after now
SweepEntry(f) ==
    /\ sweeper.pc = "iter"
    /\ f \in sweeper.todo
    /\ sweeper' =
         IF ~Exists(f) \/ files[f].mtime > sweeper.now
         THEN [sweeper EXCEPT !.pc = "panicked", !.todo = @ \ {f}, !.path = f]
         ELSE IF Expired(sweeper.now, files[f].mtime)
         THEN [sweeper EXCEPT !.pc = "remove", !.todo = @ \ {f}, !.path = f]
         ELSE [sweeper EXCEPT !.todo = @ \ {f}, !.path = f]
    /\ UNCHANGED <<keyFile, hmacKey, main, files, clock, req, cycles, served, sub, removed, issued>>

\* line 147: fs::remove_file(path).expect("deleting file")
SweepRemove ==
    /\ sweeper.pc = "remove"
    /\ IF Exists(sweeper.path)
       THEN /\ files' = Removed(sweeper.path)
            /\ req' = Orphaned(req, sweeper.path)
            /\ sub' = Touch(sub, "sweeper", sweeper.path, "kill")
            /\ sweeper' = [sweeper EXCEPT !.pc = "iter"]
            /\ issued' = Gone(sweeper.path)
       ELSE /\ sweeper' = [sweeper EXCEPT !.pc = "panicked"]
            /\ UNCHANGED <<files, req, sub, issued>>
    /\ UNCHANGED <<keyFile, hmacKey, main, clock, cycles, served, removed>>

\* line 150: the listing is exhausted, thread::sleep(one_day) begins
SweepSleep ==
    /\ sweeper.pc = "iter"
    /\ sweeper.todo = {}
    /\ sweeper' = Asleep("sleep")
    /\ UNCHANGED <<keyFile, hmacKey, main, files, clock, req, cycles, served, sub, removed, issued>>

\* the sleep returns a day later and the loop starts over
SweepWake ==
    /\ sweeper.pc = "sleep"
    /\ cycles < MaxCycles
    /\ clock + one_day <= MaxClock
    /\ clock' = clock + one_day
    /\ cycles' = cycles + 1
    /\ sweeper' = Asleep("loop")
    /\ UNCHANGED <<keyFile, hmacKey, main, files, req, served, sub, removed, issued>>

(* --------------------------- specifications ---------------------------- *)

\* The worker threads racing one another, the sweeper asleep all along.
NextServe ==
    \/ MainBoot
    \/ \E p \in Procs, c \in Contents : SubmitStart(p, c)
    \/ \E p \in Procs : SubmitAlloc(p)
    \/ \E p \in Procs : SubmitCreate(p)
    \/ \E p \in Procs : SubmitWrite(p)
    \/ \E p \in Procs : WriteFail(p)
    \/ \E p \in Procs, i \in Ids, l \in Langs : Retrieve(p, i, l)
    \/ \E p \in Procs, i \in Ids, k \in Keys : DeleteStart(p, i, k)
    \/ \E p \in Procs : DeleteUnlink(p)
    \/ \E p \in Procs, i \in Ids, k \in Keys, c \in Contents : ReplaceStart(p, i, k, c)
    \/ \E p \in Procs : ReplaceCreate(p)
    \/ \E p \in Procs : ReplaceWrite(p)

SpecServe == Init /\ [][NextServe]_vars

\* the one worker thread that runs against the sweeper
SweepProcs == {"t1"}

\* the request bodies of that thread: exactly 2 MiB, 3 MiB
SweepContents == {<<"b", "b">>, <<"c", "c", "c">>}

\* The sweeper thread racing one worker thread whose writes succeed, while
\* time passes.
NextSweep ==
    \/ MainBoot
    \/ Tick
    \/ \E p \in SweepProcs, c \in SweepContents : SubmitStart(p, c)
    \/ \E p \in SweepProcs : SubmitAlloc(p)
    \/ \E p \in SweepProcs : SubmitCreate(p)
    \/ \E p \in SweepProcs : SubmitWrite(p)
    \/ \E p \in SweepProcs, i \in Ids : Retrieve(p, i, NoLang)
    \/ \E p \in SweepProcs, i \in Ids, k \in Keys : DeleteStart(p, i, k)
    \/ \E p \in SweepProcs : DeleteUnlink(p)
    \/ \E p \in SweepProcs, i \in Ids, k \in Keys, c \in SweepContents : ReplaceStart(p, i, k, c)
    \/ \E p \in SweepProcs : ReplaceCreate(p)
    \/ \E p \in SweepProcs : ReplaceWrite(p)
    \/ SweepStart
    \/ SweepStartFail
    \/ \E f \in Ids : SweepEntry(f)
    \/ SweepRemove
    \/ SweepSleep
    \/ SweepWake

SpecSweep == Init /\ [][NextSweep]_vars

(* ------------------------------- claims -------------------------------- *)

\* the request of thread p has passed the gate and not yet been answered
PastGate(p) == req[p].op \in {"delete", "replace"} /\ req[p].pc \in {"unlink", "create", "write"}

\* C1: a replace or a delete of an existing paste with a key other than
\* gen_key(id), the missing key included, is answered Unauthorized by a step
\* that leaves ./uploads as it was, and no request carrying such a key ever
\* gets past the gate to File::create, write_all or remove_file.
C1_WrongKeyRefused ==
    /\ [](\A p \in Procs : PastGate(p) => req[p].key = <<hmacKey, req[p].id>>)
    /\ [][\A p \in Procs :
            (served' # served /\ req'[p].op \in {"delete", "replace"} /\ Exists(req'[p].id)) =>
                \A k \in Keys \ {<<hmacKey, req'[p].id>>} :
                    /\ DeleteStart(p, req'[p].id, k) =>
                         (req'[p].result = "Unauthorized" /\ req'[p].pc = "done" /\ files' = files)
                    /\ \A c \in Contents : ReplaceStart(p, req'[p].id, k, c) =>
                         (req'[p].result = "Unauthorized" /\ req'[p].pc = "done" /\ files' = files)
         ]_vars

\* a replace and a key-less delete were refused for their keys while the
\* pastes they name stand with their content
C1_Witness ==
    \E p \in Procs, q \in Procs :
        /\ req[p].op = "replace" /\ req[p].result = "Unauthorized"
        /\ req[q].op = "delete" /\ req[q].result = "Unauthorized"
        /\ Exists(req[p].id) /\ files[req[p].id].content = <<"b", "b">>
        /\ Exists(req[q].id) /\ files[req[q].id].content = <<"b", "b">>

\* the submits answered Created for id i whose file the steps counted in st
\* have left alone
Standing(i, sts) == {q \in Procs : sub[q].id = i /\ sub[q].ret /\ sub[q].st \in sts}

C3_OversizeRejected ==
    /\ [](\A p \in Procs :
            (req[p].op = "submit" /\ req[p].pc # "done") =>
                ByteLen(req[p].data) <= MAX_PASTE_BYTES)
    /\ [][\A p \in Procs, c \in Contents :
            (ByteLen(c) > MAX_PASTE_BYTES /\ SubmitStart(p, c)) =>
                (req'[p] = Done("submit", NoId, "SizeExceeded", <<>>) /\ files' = files)
         ]_vars

\* a submit was refused for its size
C3_Witness ==
    \E p \in Procs : req[p] = Done("submit", NoId, "SizeExceeded", <<>>)

C5_DeletedStaysGone ==
    [][\A p \in Procs, i \in removed, l \in Langs :
          Retrieve(p, i, l) => req'[p].result = "NotFound"]_vars

\* C9: a replace racing a deletion either overwrites the paste that is still
\* there or fails: File::create of a replace never finds the paste gone, and
\* a replace answered Ok leaves a paste behind.
C9_ReplaceNeverResurrects ==
    [][\A p \in Procs :
          /\ ReplaceCreate(p) => Exists(req[p].id)
          /\ (ReplaceWrite(p) /\ req'[p].pc = "done") => files'[req[p].id].exists
      ]_vars

\* thread w has created file i and written only part of its body into it
MidWrite(w, i) ==
    /\ req[w].pc = "write" /\ req[w].id = i /\ ~req[w].orphan
    /\ req[w].off < Len(req[w].data)

\* C10: a retrieve never returns the part of a body that a submit or a
\* replace has written so far.
C10_NoPartialRead ==
    [][\A p \in Procs, i \in Ids, l \in Langs :
          Retrieve(p, i, l) =>
              ~ \E w \in Procs :
                  /\ MidWrite(w, i)
                  /\ req'[p].result # "NotFound"
                  /\ req'[p].body = SubSeq(req[w].data, 1, req[w].off)
      ]_vars

\* the sweeper is inside a cycle
InCycle(sw) == sw.pc \in {"iter", "remove"}

\* C6: the sweeper removes a file only when it is older than thirty_days at
\* the now of the cycle, and when a cycle ends no file it listed is left that
\* is older than that.
C6_SweepExactlyExpired ==
    [][/\ (SweepRemove /\ Exists(sweeper.path)) =>
              Expired(sweeper.now, files[sweeper.path].mtime)
       /\ (InCycle(sweeper) /\ ~InCycle(sweeper')) =>
              \A f \in sweeper.seen :
                  Exists(f) => ~Expired(sweeper.now, files[f].mtime)
      ]_vars

\* C7: when the sweeper fails on one entry, every other expired entry of the
\* listing is deleted all the same.
C7_FailureDoesNotAbort ==
    (sweeper.pc = "panicked" /\ sweeper.path # NoId) =>
        \A f \in sweeper.seen \ {sweeper.path} :
            ~(Exists(f) /\ Expired(sweeper.now, files[f].mtime))

\* C8: the sweeper thread never ends.
C8_SweeperNeverEnds == sweeper.pc # "panicked"

\* C11: submits of distinct content running in parallel are never answered
\* with the same id: two answered submits whose pastes were not removed or
\* replaced since hold different ids, and once no thread is writing the file of such a submit it
\* holds the content of that submit.
C11_DistinctIds ==
    /\ \A p \in Procs, q \in Procs :
          (/\ p # q /\ sub[p].data # sub[q].data
           /\ sub[p].ret /\ sub[q].ret /\ sub[p].st # "dead" /\ sub[q].st # "dead")
              => sub[p].id # sub[q].id
    /\ \A p \in Procs :
          (sub[p].ret /\ sub[p].st # "dead" /\ ~ \E w \in Procs : MidWrite(w, sub[p].id))
              => (Exists(sub[p].id) /\ files[sub[p].id].content = sub[p].data)

\* the key a submit returned for id passes the gate of delete and of replace
\* whenever the paste exists
C12_KeyAccepted ==
    [][\A p \in Procs, i \in Ids :
          (served' # served /\ issued[i].key # NoKey /\ Exists(i)) =>
              /\ DeleteStart(p, i, issued[i].key) => req'[p].pc = "unlink"
              /\ \A c \in Contents :
                    (~TooBig(c) /\ ReplaceStart(p, i, issued[i].key, c)) => req'[p].pc = "create"
      ]_vars

\* when a replace whose file was not removed under it is answered Ok, the
\* paste holds exactly the body of that replace
C12_ReplaceStored ==
    [][\A p \in Procs :
          (ReplaceWrite(p) /\ ~req[p].orphan /\ req'[p].result = "Ok") =>
              (files'[req[p].id].exists /\ files'[req[p].id].content = req[p].data)
      ]_vars

\* C12: the key returned by submit is gen_key(id) under the one secret and is
\* accepted by delete and replace as long as the paste exists, and an
\* authorized replace with a body within the limit leaves exactly that body
\* to be retrieved.
C12_KeyIsPure == C12_KeyAccepted /\ C12_ReplaceStored

\* C13: when hmac_key.txt is missing, unreadable or empty, main never serves:
\* no request is accepted, the sweeper is never started and ./uploads stays
\* as it was; a serving process holds the non-empty content of the file as
\* its secret, and once loaded the secret never changes.
C13_NoSecretNoService ==
    /\ [](keyFile \in {"missing", "unreadable", ""} =>
            /\ main # "serving" /\ sweeper.pc = "off" /\ served = 0
            /\ \A p \in Procs : req[p] = Idle
            /\ files \in StartDirs)
    /\ [](main = "serving" => (hmacKey = keyFile /\ hmacKey # ""))
    /\ [][(hmacKey # "unset" => hmacKey' = hmacKey) /\ keyFile' = keyFile]_vars

\* main has exited on the empty key of a missing file, nothing started
C13_Witness ==
    /\ keyFile = "missing" /\ main = "exited" /\ hmacKey = ""
    /\ sweeper.pc = "off" /\ served = 0

\* C14: a delete or a replace of an id that has no paste is answered NotFound
\* whatever the key, gen_key(id) included; Unauthorized is answered only for
\* a paste that exists; and a refused request leaves ./uploads as it was.
C14_ExistenceBeforeKey ==
    [][\A p \in Procs :
          (/\ served' # served /\ req'[p].op \in {"delete", "replace"}
           /\ (~Exists(req'[p].id) \/ req'[p].result \in {"NotFound", "Unauthorized"})) =>
              \A k \in Keys :
                  LET i == req'[p].id
                      Refused ==
                          /\ ~Exists(i) => req'[p].result = "NotFound"
                          /\ req'[p].result = "Unauthorized" => (Exists(i) /\ k # gen_key(i))
                          /\ req'[p].result \in {"NotFound", "Unauthorized"} =>
                                (req'[p].pc = "done" /\ files' = files)
                  IN  IF req'[p].op = "delete"
                      THEN DeleteStart(p, i, k) => Refused
                      ELSE \A c \in Contents : ReplaceStart(p, i, k, c) => Refused
      ]_vars

\* a replace of an id whose paste a submit stored and a delete removed was
\* answered NotFound, and the paste is still gone
C14_Witness ==
    \E p \in Procs :
        /\ req[p].op = "replace" /\ req[p].result = "NotFound"
        /\ issued[req[p].id].st = "gone" /\ ~Exists(req[p].id)

\* C15: a replace of an existing paste with a body over MAX_PASTE_BYTES is
\* answered Unauthorized when the key is not gen_key(id) and SizeExceeded
\* when it is, and leaves content and time stamp of the paste as they were.
C15_ReplaceCheckOrder ==
    [][\A p \in Procs :
          (served' # served /\ req'[p].op = "replace" /\ Exists(req'[p].id)) =>
              \A k \in Keys, c \in Contents :
                  (TooBig(c) /\ ReplaceStart(p, req'[p].id, k, c)) =>
                      /\ req'[p].result =
                            IF k # gen_key(req'[p].id) THEN "Unauthorized" ELSE "SizeExceeded"
                      /\ req'[p].pc = "done"
                      /\ files' = files
      ]_vars

\* one replace was refused for its size and another for its key, and the
\* paste both name is the one the server started with
C15_Witness ==
    \E p \in Procs, q \in Procs :
        /\ req[p].op = "replace" /\ req[p].result = "SizeExceeded"
        /\ req[q].op = "replace" /\ req[q].result = "Unauthorized"
        /\ req[q].id = req[p].id
        /\ files[req[p].id] = [content |-> <<"b", "b">>, mtime |-> 0, exists |-> TRUE]

\* the candidates the submit of thread p has drawn and found taken:
\* double_id_len starts at ID_LEN * 2 and grows by one with each of them
Attempt(p) == req[p].dlen - ID_LEN * 2

\* C16: the k-th candidate of a submit (k = 0, 1, ...) has length
\* ID_LEN + k \div 2; when a paste of that name exists the loop goes on to
\* candidate k + 1, else it ends with that candidate, which is the id the
\* file is created under and the response returns.
C16_LengthEscalation ==
    /\ [][\A p \in Procs :
            SubmitAlloc(p) =>
                \E id \in Ids :
                    /\ Len(id) = ID_LEN + (Attempt(p) \div 2)
                    /\ IF Exists(id)
                       THEN req'[p].pc = "alloc" /\ Attempt(p)' = Attempt(p) + 1
                       ELSE req'[p].pc = "create" /\ req'[p].id = id
         ]_vars
    /\ [][\A p \in Procs :
            (req[p].op = "submit" /\ req[p].pc \in {"create", "write"} /\ req'[p].op = "submit")
                => req'[p].id = req[p].id
         ]_vars

\* a submit has left the loop with its third candidate, the first one of
\* length ID_LEN + 1
C16_Witness ==
    \E p \in Procs :
        /\ req[p].op = "submit" /\ req[p].pc = "create"
        /\ Attempt(p) = 2 /\ Len(req[p].id) = ID_LEN + 1

\* C17: a retrieve, which takes no key, of an existing paste is answered with
\* its content (as it is, rendered, or with the rendering refused), a
\* retrieve of any other id with NotFound, and no retrieve changes ./uploads:
\* the set of pastes, their contents, their time stamps.
C17_RetrieveReadOnly ==
    [][\A p \in Procs :
          (served' # served /\ req'[p].op = "retrieve") =>
              \A l \in Langs :
                  LET i == req'[p].id
                  IN  Retrieve(p, i, l) =>
                          /\ files' = files
                          /\ Exists(i) =>
                                /\ req'[p].result \in {"Ok", "Rendered", "HighlightUnavailable"}
                                /\ l = NoLang => req'[p].result = "Ok"
                                /\ req'[p].body = files[i].content
                          /\ ~Exists(i) => req'[p].result = "NotFound"
      ]_vars

\* one retrieve returned the paste as it is, another was refused its
\* rendering, and the paste stands as the server found it
C17_Witness ==
    \E p \in Procs, q \in Procs :
        /\ req[p].op = "retrieve" /\ req[p].result = "Ok"
        /\ req[q].op = "retrieve" /\ req[q].result = "HighlightUnavailable"
        /\ req[q].id = req[p].id
        /\ files[req[p].id] = [content |-> <<"b", "b">>, mtime |-> 0, exists |-> TRUE]
        /\ req[p].body = <<"b", "b">>

\* C18: a submit answered with an id whose earlier paste was removed returns
\* the key the first submit of that id returned, and that key passes the gate
\* of delete and of replace for the new paste.
C18_KeySurvivesPaste ==
    /\ [][\A p \in Procs :
            (req[p].op = "submit" /\ req'[p].result = "Created" /\ issued[req[p].id].st = "gone")
                => req'[p].key = issued[req[p].id].key
         ]_vars
    /\ [][\A p \in Procs, i \in Ids :
            (served' # served /\ issued[i].st = "again" /\ Exists(i)) =>
                /\ DeleteStart(p, i, issued[i].key) => req'[p].pc = "unlink"
                /\ \A c \in Contents :
                      (~TooBig(c) /\ ReplaceStart(p, i, issued[i].key, c))
                          => req'[p].pc = "create"
         ]_vars

\* the sweeper removed a paste, a later submit was answered with its id, and
\* a replace carrying the key of the first paste is past the gate
C18_Witness ==
    \E p \in Procs :
        /\ req[p].op = "replace" /\ req[p].pc = "create"
        /\ issued[req[p].id].st = "again" /\ Exists(req[p].id)
        /\ req[p].key = issued[req[p].id].key
        /\ sub[p].id = req[p].id /\ sub[p].ret /\ sub[p].st = "clean"
        /\ files[req[p].id].mtime > thirty_days

\* C19: the sweeper passes over a paste whose time stamp is later than the
\* now of its cycle and goes on with the cycle, and never removes such a paste.
C19_FreshPasteSurvivesSweep ==
    [][/\ \A f \in Ids :
            (SweepEntry(f) /\ Exists(f) /\ files[f].mtime > sweeper.now)
                => sweeper'.pc = "iter"
       /\ (SweepRemove /\ Exists(sweeper.path)) => files[sweeper.path].mtime <= sweeper.now
      ]_vars

====
